---- MODULE Spec2Model ----
\* Request handlers of blogicum/blog/views.py as a state machine over the
\* Post, Comment, Category and User tables.  Every handler is one action:
\* it reads the requester and the URL kwargs, changes the tables the way the
\* view does and leaves the answer (status, redirect target, object list) in
\* `response`.  A listing is modelled as its queryset, a set of rows: with at
\* most MaxPosts posts every queryset fits the first page of paginate_by = 10,
\* and no property below depends on order_by('-pub_date').  The post_id of the
\* comment edit and delete URLs is read by no handler and is left out.
EXTENDS Integers, FiniteSets, Sequences, TLC

\* ---------------------------------------------------------------- bounds
MaxPosts == 1
MaxComments == 2
MaxNow == 1

Anonymous == "AnonymousUser"
Users == {"u1", "u2"}
Requesters == Users \cup {Anonymous}
Usernames == {"alice", "bob", "carol"}
CategorySlugs == {"news", "draft"}
Slugs == CategorySlugs \cup {"ghost"}
Texts == {"a", "b"}
Methods == {"GET", "POST"}
PostIds == 1..(MaxPosts + 1)
CommentIds == 1..(MaxComments + 1)
PubDates == {0, 1}

VARIABLES posts, comments, categories, users, now, nextPostId, nextCommentId, response

vars == <<posts, comments, categories, users, now, nextPostId, nextCommentId, response>>
db == <<posts, comments, categories, users, nextPostId, nextCommentId>>

\* ------------------------------------------------------------ URL helpers
NoKwargs == [post_id |-> 0, comment_id |-> 0, name |-> ""]
PostKw(post_id) == [NoKwargs EXCEPT !.post_id = post_id]
CommentKw(comment_id) == [NoKwargs EXCEPT !.comment_id = comment_id]
NameKw(name) == [NoKwargs EXCEPT !.name = name]
NoLocation == [url |-> "", post_id |-> 0, username |-> ""]
LoginUrl == [url |-> "login", post_id |-> 0, username |-> ""]
reverse_post_detail(id) == [url |-> "blog:post_detail", post_id |-> id, username |-> ""]
reverse_profile(name) == [url |-> "blog:profile", post_id |-> 0, username |-> name]

\* What a handler answers: the view that ran, the requester, the URL kwargs,
\* the HTTP status,
\* the redirect target and the objects handed to the template.
Response(view, user, kw, status, location, object_list, ctx_comments) ==
    [view |-> view, user |-> user, kwargs |-> kw, status |-> status,
     location |-> location, object_list |-> object_list, comments |-> ctx_comments]

Ok(view, user, kw, object_list, ctx_comments) ==
    Response(view, user, kw, 200, NoLocation, object_list, ctx_comments)
Http404(view, user, kw) == Response(view, user, kw, 404, NoLocation, {}, {})
redirect(view, user, kw, location) == Response(view, user, kw, 302, location, {}, {})

\* ------------------------------------------------------------ ORM helpers
\* Count('comments'): the comments whose post is p
CommentsOf(p) == {c \in DOMAIN comments : comments[c].post = p}
Count(p) == Cardinality(CommentsOf(p))

\* a home feed that forgets the category's flag
PostListView_get_queryset_NoCategory ==
    {[id |-> p, comment_count |-> Count(p)] :
        p \in {q \in DOMAIN posts : posts[q].is_published /\ posts[q].pub_date <= now}}

\* Q(is_published=True) & Q(category__is_published=True) & Q(pub_date__lte=now)
PostListView_get_queryset ==
    {[id |-> p, comment_count |-> Count(p)] :
        p \in {q \in DOMAIN posts :
                 /\ posts[q].is_published
                 /\ categories[posts[q].category].is_published
                 /\ posts[q].pub_date <= now}}

\* get_object_or_404(User, username=...)
UserByName(name) == {u \in Users : users[u] = name}

ProfileListView_get_queryset(user, profile) ==
    LET own == {q \in DOMAIN posts : posts[q].author = profile}
        shown == IF user # profile
                 THEN {q \in own : /\ posts[q].is_published
                                   /\ posts[q].pub_date <= now
                                   /\ categories[posts[q].category].is_published}
                 ELSE own
    IN {[id |-> p, comment_count |-> Count(p)] : p \in shown}

\* a category lookup by slug alone
CategoryFound_AnySlug(slug) == slug \in DOMAIN categories

\* get_object_or_404(Category, slug=..., is_published=True)
CategoryFound(slug) == slug \in DOMAIN categories /\ categories[slug].is_published

\* a category feed that forgets the publish date
PostCategoryView_get_queryset_NoDate(category_slug) ==
    {[id |-> p] :
        p \in {q \in DOMAIN posts :
                 /\ posts[q].category = category_slug
                 /\ posts[q].is_published
                 /\ categories[posts[q].category].is_published}}

PostCategoryView_get_queryset(category_slug) ==
    {[id |-> p] :
        p \in {q \in DOMAIN posts :
                 /\ posts[q].category = category_slug
                 /\ posts[q].is_published
                 /\ categories[posts[q].category].is_published
                 /\ posts[q].pub_date <= now}}

\* a detail view that hides a hidden post from its author too
PostDetailView_get_object_NoOwner(user, post_id) ==
    IF post_id \notin DOMAIN posts THEN "404"
    ELSE IF \/ ~categories[posts[post_id].category].is_published
            \/ ~posts[post_id].is_published
            \/ posts[post_id].pub_date > now
         THEN "404"
         ELSE "found"

\* a detail view that forgets the publish date
PostDetailView_get_object_NoDate(user, post_id) ==
    IF post_id \notin DOMAIN posts THEN "404"
    ELSE IF /\ user # posts[post_id].author
            /\ \/ ~categories[posts[post_id].category].is_published
               \/ ~posts[post_id].is_published
         THEN "404"
         ELSE "found"

\* PostDetailView.get_object: "found" or "404"
PostDetailView_get_object(user, post_id) ==
    IF post_id \notin DOMAIN posts THEN "404"
    ELSE IF /\ user # posts[post_id].author
            /\ \/ ~categories[posts[post_id].category].is_published
               \/ ~posts[post_id].is_published
               \/ posts[post_id].pub_date > now
         THEN "404"
         ELSE "found"

\* a guard that asks for a login only, not for the author
PostFormMixin_dispatch_AnyUser(user, post_id) ==
    IF post_id \notin DOMAIN posts THEN "404"
    ELSE IF user = Anonymous THEN "redirect"
    ELSE "pass"

\* PostFormMixin.dispatch: "404", "redirect" or "pass"
PostFormMixin_dispatch(user, post_id) ==
    IF post_id \notin DOMAIN posts THEN "404"
    ELSE IF posts[post_id].author # user THEN "redirect"
    ELSE "pass"

\* CommentMixin.dispatch runs before LoginRequiredMixin.dispatch (MRO):
\* "404", "redirect", "login" or "pass"
CommentMixin_dispatch(user, comment_id) ==
    IF comment_id \notin DOMAIN comments THEN "404"
    ELSE IF comments[comment_id].author # user THEN "redirect"
    ELSE IF user = Anonymous THEN "login"
    ELSE "pass"

CommentMixin_get_success_url(comment_id) == reverse_post_detail(comment_id)
CommentCreateView_get_success_url(post_id) == reverse_post_detail(post_id)

\* LoginRequiredMixin.dispatch
LoginRequired(user) == user = Anonymous

\* models.ForeignKey(Post, on_delete=CASCADE) of Comment
CascadeComments(post_id) ==
    [c \in {d \in DOMAIN comments : comments[d].post # post_id} |-> comments[c]]

\* ------------------------------------------------ what a handler returns
\* The tables after the request and the response.
Outcome(p, c, u, np, nc, resp) ==
    [posts |-> p, comments |-> c, users |-> u, nextPostId |-> np, nextCommentId |-> nc,
     response |-> resp]
ReadOnly(resp) == Outcome(posts, comments, users, nextPostId, nextCommentId, resp)

\* request bodies: a GET and an invalid POST carry no usable form data
NoPostForm == [category |-> "news", is_published |-> FALSE, pub_date |-> 0]
PostForms == [category : CategorySlugs, is_published : BOOLEAN, pub_date : PubDates]
PostRequests ==
    {r \in [method : Methods, valid : BOOLEAN, form : PostForms] :
        (r.method = "GET" \/ ~r.valid) => r.form = NoPostForm}
TextRequests ==
    {r \in [method : Methods, valid : BOOLEAN, form : Texts] :
        (r.method = "GET" \/ ~r.valid) => r.form = "a"}
NameRequests ==
    {r \in [method : Methods, valid : BOOLEAN, form : Usernames] :
        (r.method = "GET" \/ ~r.valid) => r.form = "alice"}

\* ------------------------------------------------------------ read views
PostListView(user) == ReadOnly(Ok("index", user, NoKwargs, PostListView_get_queryset, {}))

PostDetailView(user, post_id) ==
    IF PostDetailView_get_object(user, post_id) = "404"
    THEN ReadOnly(Http404("post_detail", user, PostKw(post_id)))
    ELSE ReadOnly(Ok("post_detail", user, PostKw(post_id), {[id |-> post_id]}, CommentsOf(post_id)))

ProfileListView(user, username) ==
    IF UserByName(username) = {}
    THEN ReadOnly(Http404("profile", user, NameKw(username)))
    ELSE ReadOnly(Ok("profile", user, NameKw(username),
                     ProfileListView_get_queryset(user, CHOOSE u \in UserByName(username) : TRUE),
                     {}))

PostCategoryView(user, category_slug) ==
    IF ~CategoryFound(category_slug)
    THEN ReadOnly(Http404("category_posts", user, NameKw(category_slug)))
    ELSE ReadOnly(Ok("category_posts", user, NameKw(category_slug), PostCategoryView_get_queryset(category_slug), {}))

\* -------------------------------------------------------- mutating views
PostCreateView(user, req) ==
    IF LoginRequired(user)
    THEN ReadOnly(redirect("create_post", user, NoKwargs, LoginUrl))
    ELSE IF req.method = "GET" \/ ~req.valid
    THEN ReadOnly(Ok("create_post", user, NoKwargs, {}, {}))
    ELSE Outcome([p \in DOMAIN posts \cup {nextPostId} |->
                     IF p = nextPostId
                     THEN [author |-> user, category |-> req.form.category,
                           is_published |-> req.form.is_published,
                           pub_date |-> req.form.pub_date]
                     ELSE posts[p]],
                 comments, users, nextPostId + 1, nextCommentId,
                 redirect("create_post", user, NoKwargs, reverse_profile(users[user])))

PostUpdateView(user, post_id, req) ==
    LET d == PostFormMixin_dispatch(user, post_id)
    IN IF d = "404" THEN ReadOnly(Http404("edit_post", user, PostKw(post_id)))
       ELSE IF d = "redirect"
       THEN ReadOnly(redirect("edit_post", user, PostKw(post_id), reverse_post_detail(post_id)))
       ELSE IF req.method = "GET" \/ ~req.valid
       THEN ReadOnly(Ok("edit_post", user, PostKw(post_id), {[id |-> post_id]}, {}))
       ELSE Outcome([posts EXCEPT ![post_id] =
                        [author |-> posts[post_id].author,
                         category |-> req.form.category,
                         is_published |-> req.form.is_published,
                         pub_date |-> req.form.pub_date]],
                    comments, users, nextPostId, nextCommentId,
                    redirect("edit_post", user, PostKw(post_id), reverse_post_detail(post_id)))

PostDeleteView(user, post_id, method) ==
    LET d == PostFormMixin_dispatch(user, post_id)
    IN IF d = "404" THEN ReadOnly(Http404("delete_post", user, PostKw(post_id)))
       ELSE IF d = "redirect"
       THEN ReadOnly(redirect("delete_post", user, PostKw(post_id), reverse_post_detail(post_id)))
       ELSE IF method = "GET"
       THEN ReadOnly(Ok("delete_post", user, PostKw(post_id), {[id |-> post_id]}, {}))
       ELSE Outcome([p \in DOMAIN posts \ {post_id} |-> posts[p]],
                    CascadeComments(post_id), users, nextPostId, nextCommentId,
                    redirect("delete_post", user, PostKw(post_id), reverse_profile(users[user])))

ProfileUpdateView(user, req) ==
    IF LoginRequired(user)
    THEN ReadOnly(redirect("edit_profile", user, NoKwargs, LoginUrl))
    ELSE IF req.method = "GET" \/ ~req.valid
    THEN ReadOnly(Ok("edit_profile", user, NoKwargs, {}, {}))
    ELSE Outcome(posts, comments, [users EXCEPT ![user] = req.form],
                 nextPostId, nextCommentId,
                 redirect("edit_profile", user, NoKwargs, reverse_profile(req.form)))

CommentCreateView(user, post_id, req) ==
    IF LoginRequired(user)
    THEN ReadOnly(redirect("add_comment", user, PostKw(post_id), LoginUrl))
    ELSE IF req.method = "GET" \/ ~req.valid
    THEN ReadOnly(Ok("add_comment", user, PostKw(post_id), {}, {}))
    ELSE IF post_id \notin DOMAIN posts
    THEN ReadOnly(Http404("add_comment", user, PostKw(post_id)))
    ELSE Outcome(posts,
                 [c \in DOMAIN comments \cup {nextCommentId} |->
                     IF c = nextCommentId
                     THEN [author |-> user, post |-> post_id, text |-> req.form]
                     ELSE comments[c]],
                 users, nextPostId, nextCommentId + 1,
                 redirect("add_comment", user, PostKw(post_id), CommentCreateView_get_success_url(post_id)))

CommentUpdateView(user, comment_id, req) ==
    LET d == CommentMixin_dispatch(user, comment_id)
    IN IF d = "404" THEN ReadOnly(Http404("edit_comment", user, CommentKw(comment_id)))
       ELSE IF d = "redirect"
       THEN ReadOnly(redirect("edit_comment", user, CommentKw(comment_id), reverse_post_detail(comment_id)))
       ELSE IF d = "login"
       THEN ReadOnly(redirect("edit_comment", user, CommentKw(comment_id), LoginUrl))
       ELSE IF req.method = "GET" \/ ~req.valid
       THEN ReadOnly(Ok("edit_comment", user, CommentKw(comment_id), {}, {comment_id}))
       ELSE Outcome(posts, [comments EXCEPT ![comment_id].text = req.form],
                    users, nextPostId, nextCommentId,
                    redirect("edit_comment", user, CommentKw(comment_id),
                             CommentMixin_get_success_url(comment_id)))

CommentDeleteView(user, comment_id, method) ==
    LET d == CommentMixin_dispatch(user, comment_id)
    IN IF d = "404" THEN ReadOnly(Http404("delete_comment", user, CommentKw(comment_id)))
       ELSE IF d = "redirect"
       THEN ReadOnly(redirect("delete_comment", user, CommentKw(comment_id), reverse_post_detail(comment_id)))
       ELSE IF d = "login"
       THEN ReadOnly(redirect("delete_comment", user, CommentKw(comment_id), LoginUrl))
       ELSE IF method = "GET"
       THEN ReadOnly(Ok("delete_comment", user, CommentKw(comment_id), {}, {comment_id}))
       ELSE Outcome(posts, [c \in DOMAIN comments \ {comment_id} |-> comments[c]],
                    users, nextPostId, nextCommentId,
                    redirect("delete_comment", user, CommentKw(comment_id),
                             CommentMixin_get_success_url(comment_id)))

\* ------------------------------------------------------------------ Init
Init ==
    /\ posts = [p \in {} |-> 0]
    /\ comments = [c \in {} |-> 0]
    /\ categories = [s \in CategorySlugs |-> [is_published |-> (s = "news")]]
    /\ users = [u \in Users |-> IF u = "u1" THEN "alice" ELSE "bob"]
    /\ now = 0
    /\ nextPostId = 1
    /\ nextCommentId = 1
    /\ response = Response("", Anonymous, NoKwargs, 0, NoLocation, {}, {})

\* --------------------------------------------------------------- actions
\* the request is served: the tables and the response become the handler's outcome
Serve(out) ==
    /\ posts' = out.posts
    /\ comments' = out.comments
    /\ users' = out.users
    /\ nextPostId' = out.nextPostId
    /\ nextCommentId' = out.nextCommentId
    /\ response' = out.response
    /\ UNCHANGED <<categories, now>>

\* timezone.now() advances
Tick ==
    /\ now < MaxNow
    /\ now' = now + 1
    /\ UNCHANGED <<db, response>>

Index(user) == Serve(PostListView(user))
PostDetail(user, post_id) == Serve(PostDetailView(user, post_id))
Profile(user, username) == Serve(ProfileListView(user, username))
CategoryPosts(user, category_slug) == Serve(PostCategoryView(user, category_slug))

PostCreate(user, req) ==
    /\ PostCreateView(user, req).nextPostId <= MaxPosts + 1
    /\ Serve(PostCreateView(user, req))

PostUpdate(user, post_id, req) == Serve(PostUpdateView(user, post_id, req))
PostDelete(user, post_id, method) == Serve(PostDeleteView(user, post_id, method))

\* the form is valid only if the username is free (User.username is unique)
ProfileUpdate(user, req) ==
    /\ req.valid => \A u \in Users \ {user} : users[u] # req.form
    /\ Serve(ProfileUpdateView(user, req))

CommentCreate(user, post_id, req) ==
    /\ CommentCreateView(user, post_id, req).nextCommentId <= MaxComments + 1
    /\ Serve(CommentCreateView(user, post_id, req))

CommentUpdate(user, comment_id, req) ==
    Serve(CommentUpdateView(user, comment_id, req))
CommentDelete(user, comment_id, method) ==
    Serve(CommentDeleteView(user, comment_id, method))

Next ==
    \/ Tick
    \/ \E user \in Requesters : Index(user)
    \/ \E user \in Requesters, post_id \in PostIds : PostDetail(user, post_id)
    \/ \E user \in Requesters, username \in Usernames : Profile(user, username)
    \/ \E user \in Requesters, slug \in Slugs : CategoryPosts(user, slug)
    \/ \E user \in Requesters, req \in PostRequests : PostCreate(user, req)
    \/ \E user \in Requesters, post_id \in PostIds, req \in PostRequests :
            PostUpdate(user, post_id, req)
    \/ \E user \in Requesters, post_id \in PostIds, method \in Methods :
            PostDelete(user, post_id, method)
    \/ \E user \in Requesters, req \in NameRequests : ProfileUpdate(user, req)
    \/ \E user \in Requesters, post_id \in PostIds, req \in TextRequests :
            CommentCreate(user, post_id, req)
    \/ \E user \in Requesters, comment_id \in CommentIds, req \in TextRequests :
            CommentUpdate(user, comment_id, req)
    \/ \E user \in Requesters, comment_id \in CommentIds, method \in Methods :
            CommentDelete(user, comment_id, method)

\* every handler of the module
Spec == Init /\ [][Next]_vars

\* publishing and reading posts: the post handlers, the four read views, the clock
NextPosts ==
    \/ Tick
    \/ \E user \in Requesters : Index(user)
    \/ \E user \in Requesters, post_id \in PostIds : PostDetail(user, post_id)
    \/ \E user \in Requesters, username \in Usernames : Profile(user, username)
    \/ \E user \in Requesters, slug \in Slugs : CategoryPosts(user, slug)
    \/ \E user \in Requesters, req \in PostRequests : PostCreate(user, req)
    \/ \E user \in Requesters, post_id \in PostIds, req \in PostRequests :
            PostUpdate(user, post_id, req)
    \/ \E user \in Requesters, post_id \in PostIds, method \in Methods :
            PostDelete(user, post_id, method)

SpecPosts == Init /\ [][NextPosts]_vars

\* the owner-guarded handlers: posts and comments are written, edited, deleted
NextOwnership ==
    \/ \E user \in Requesters, req \in PostRequests : PostCreate(user, req)
    \/ \E user \in Requesters, post_id \in PostIds, req \in PostRequests :
            PostUpdate(user, post_id, req)
    \/ \E user \in Requesters, post_id \in PostIds, method \in Methods :
            PostDelete(user, post_id, method)
    \/ \E user \in Requesters, post_id \in PostIds, req \in TextRequests :
            CommentCreate(user, post_id, req)
    \/ \E user \in Requesters, comment_id \in CommentIds, req \in TextRequests :
            CommentUpdate(user, comment_id, req)
    \/ \E user \in Requesters, comment_id \in CommentIds, method \in Methods :
            CommentDelete(user, comment_id, method)

SpecOwnership == Init /\ [][NextOwnership]_vars

\* the post guard alone: posts of either author are written, edited and deleted
\* and commented on.  No guarded handler reads a post's category or dates or a
\* comment's text, so the forms sent here differ in the published flag only.
GuardRequests ==
    {r \in PostRequests : r.form.category = "news" /\ r.form.pub_date = 0}

NextGuard ==
    \/ \E user \in Requesters, req \in GuardRequests : PostCreate(user, req)
    \/ \E user \in Requesters, post_id \in PostIds, req \in GuardRequests :
            PostUpdate(user, post_id, req)
    \/ \E user \in Requesters, post_id \in PostIds, method \in Methods :
            PostDelete(user, post_id, method)
    \/ \E user \in Requesters, post_id \in PostIds :
            CommentCreate(user, post_id, [method |-> "POST", valid |-> TRUE, form |-> "a"])

SpecGuard == Init /\ [][NextGuard]_vars

\* listing: posts appear, comments come and go, profiles are renamed, the
\* listings are read
NextListings ==
    \/ \E user \in Requesters : Index(user)
    \/ \E user \in Requesters, username \in Usernames : Profile(user, username)
    \/ \E user \in Requesters, slug \in Slugs : CategoryPosts(user, slug)
    \/ \E user \in Requesters, req \in PostRequests : PostCreate(user, req)
    \/ \E user \in Requesters, post_id \in PostIds, req \in TextRequests :
            CommentCreate(user, post_id, req)
    \/ \E user \in Requesters, comment_id \in CommentIds, method \in Methods :
            CommentDelete(user, comment_id, method)
    \/ \E user \in Requesters, req \in NameRequests : ProfileUpdate(user, req)

SpecListings == Init /\ [][NextListings]_vars

\* ================================================================ properties
\* the public visibility rule of the data model
PubliclyVisible(p) ==
    /\ posts[p].is_published
    /\ categories[posts[p].category].is_published
    /\ posts[p].pub_date <= now

Scheduled(p) ==
    /\ posts[p].is_published
    /\ categories[posts[p].category].is_published
    /\ posts[p].pub_date > now

\* the posts a response lists
Listed(resp) == {row.id : row \in resp.object_list}

HomeFeed(viewer) == PostListView(viewer).response
CategoryFeed(viewer, p) == PostCategoryView(viewer, posts[p].category).response
ProfileFeed(viewer, p) == ProfileListView(viewer, users[posts[p].author]).response
Detail(viewer, post_id) == PostDetailView(viewer, post_id).response

\* C1: for every post P and every viewer who is anonymous or a user other than
\* P's author, P is in the home feed, in the feed of P's category and in the
\* profile feed of P's author exactly when P is published, its category is
\* published and its publish date is not after now.
C1_ListedIffPubliclyVisible ==
    \A p \in DOMAIN posts : \A viewer \in Requesters \ {posts[p].author} :
        /\ p \in Listed(HomeFeed(viewer)) <=> PubliclyVisible(p)
        /\ p \in Listed(CategoryFeed(viewer, p)) <=> PubliclyVisible(p)
        /\ p \in Listed(ProfileFeed(viewer, p)) <=> PubliclyVisible(p)

\* a visitor has read the profile of an author and was shown the author's one
\* visible post while another viewer of the home feed would see it too
C1_Witness ==
    \E p \in DOMAIN posts :
        /\ response.view = "profile"
        /\ response.kwargs.name = users[posts[p].author]
        /\ response.user # posts[p].author
        /\ response.status = 200
        /\ PubliclyVisible(p)
        /\ p \in Listed(response)

\* C2: the author of a post P finds P in the own profile listing and gets P from
\* the detail view, whatever P's published flag, category flag and publish date.
C2_AuthorSeesOwnPost ==
    \A p \in DOMAIN posts :
        LET author == posts[p].author
        IN /\ p \in Listed(ProfileFeed(author, p))
           /\ ProfileFeed(author, p).status = 200
           /\ Detail(author, p).status = 200
           /\ Listed(Detail(author, p)) = {p}

\* the author has opened the detail page of an own post that is not publicly visible
C2_Witness ==
    \E p \in DOMAIN posts :
        /\ response.view = "post_detail"
        /\ response.kwargs.post_id = p
        /\ response.user = posts[p].author
        /\ ~PubliclyVisible(p)
        /\ response.status = 200
        /\ Listed(response) = {p}

\* C6: a detail request by someone who is not the author, for a post id that does
\* not exist or for a post that is unpublished, in an unpublished category or
\* scheduled, is answered 'not found' and nothing else, the same answer in
\* both cases.
C6_HiddenIsNotFound ==
    \A viewer \in Requesters : \A post_id \in PostIds :
        (\/ post_id \notin DOMAIN posts
         \/ /\ viewer # posts[post_id].author
            /\ ~PubliclyVisible(post_id))
        => Detail(viewer, post_id) = Http404("post_detail", viewer, PostKw(post_id))

\* a non-author asked for an existing hidden post and got 404
C6_Witness ==
    \E p \in DOMAIN posts :
        /\ response.view = "post_detail"
        /\ response.kwargs.post_id = p
        /\ response.user # posts[p].author
        /\ ~PubliclyVisible(p)
        /\ response.status = 404

C9_UnpublishedCategoryNotFound ==
    \A viewer \in Requesters : \A slug \in Slugs :
        (slug \notin DOMAIN categories \/ ~categories[slug].is_published)
        => PostCategoryView(viewer, slug).response
             = Http404("category_posts", viewer, NameKw(slug))

\* the author of a published post in an unpublished category asked for that
\* category's listing and got 404
C9_Witness ==
    \E p \in DOMAIN posts :
        /\ posts[p].is_published
        /\ posts[p].pub_date <= now
        /\ ~categories[posts[p].category].is_published
        /\ response.view = "category_posts"
        /\ response.kwargs.name = posts[p].category
        /\ response.user = posts[p].author
        /\ response.status = 404

Untouched(out) ==
    /\ out.posts = posts
    /\ out.comments = comments
    /\ out.users = users

\* C4: an edit or delete request, GET or POST, for an existing post P by anyone
\* but P's author (another user or anonymous) changes no post and no comment and
\* is answered by a redirect to P's detail view; no request of anyone but P's
\* author to any handler changes or deletes P.
C4_OnlyAuthorChangesPost ==
    \A p \in DOMAIN posts : \A user \in Requesters \ {posts[p].author} :
        /\ \A req \in PostRequests :
              /\ Untouched(PostUpdateView(user, p, req))
              /\ PostUpdateView(user, p, req).response
                   = redirect("edit_post", user, PostKw(p), reverse_post_detail(p))
        /\ \A method \in Methods :
              /\ Untouched(PostDeleteView(user, p, method))
              /\ PostDeleteView(user, p, method).response
                   = redirect("delete_post", user, PostKw(p), reverse_post_detail(p))
        /\ LET Keeps(out) == p \in DOMAIN out.posts /\ out.posts[p] = posts[p]
           IN /\ \A req \in PostRequests : Keeps(PostCreateView(user, req))
              /\ \A q \in PostIds : \A req \in PostRequests :
                    Keeps(PostUpdateView(user, q, req))
              /\ \A q \in PostIds : \A method \in Methods :
                    Keeps(PostDeleteView(user, q, method))
              /\ \A req \in NameRequests : Keeps(ProfileUpdateView(user, req))
              /\ \A q \in PostIds : \A req \in TextRequests :
                    Keeps(CommentCreateView(user, q, req))
              /\ \A c \in CommentIds : \A req \in TextRequests :
                    Keeps(CommentUpdateView(user, c, req))
              /\ \A c \in CommentIds : \A method \in Methods :
                    Keeps(CommentDeleteView(user, c, method))

\* another signed-in user has asked to delete a post that has comments and was
\* sent to the post's detail page
C4_Witness ==
    \E p \in DOMAIN posts :
        /\ response.view = "delete_post"
        /\ response.kwargs.post_id = p
        /\ response.user \in Users \ {posts[p].author}
        /\ CommentsOf(p) # {}
        /\ response.status = 302
        /\ response.location = reverse_post_detail(p)

\* C3: an edit or delete request for an existing comment C succeeds iff the
\* requester is C's author; anyone else is redirected to the detail page of the
\* post C belongs to, and C is unchanged.
C3_CommentGuard ==
    \A c \in DOMAIN comments : \A user \in Requesters :
        LET belongs == reverse_post_detail(comments[c].post)
        IN IF user = comments[c].author
           THEN /\ \A text \in Texts :
                     CommentUpdateView(user, c,
                         [method |-> "POST", valid |-> TRUE, form |-> text]).comments
                       = [comments EXCEPT ![c].text = text]
                /\ c \notin DOMAIN CommentDeleteView(user, c, "POST").comments
           ELSE /\ \A req \in TextRequests :
                     /\ Untouched(CommentUpdateView(user, c, req))
                     /\ CommentUpdateView(user, c, req).response.status = 302
                     /\ CommentUpdateView(user, c, req).response.location = belongs
                /\ \A method \in Methods :
                     /\ Untouched(CommentDeleteView(user, c, method))
                     /\ CommentDeleteView(user, c, method).response.status = 302
                     /\ CommentDeleteView(user, c, method).response.location = belongs

\* C5: a request of an anonymous requester to a writing handler (post create,
\* edit, delete; comment create, edit, delete; profile edit), the post or comment
\* it names existing, is answered by a redirect to the login page and changes no
\* post, comment or user.
C5_AnonymousSentToLogin ==
    LET ToLogin(out) ==
            /\ Untouched(out)
            /\ out.response.status = 302
            /\ out.response.location = LoginUrl
    IN /\ \A req \in PostRequests : ToLogin(PostCreateView(Anonymous, req))
       /\ \A req \in NameRequests : ToLogin(ProfileUpdateView(Anonymous, req))
       /\ \A p \in DOMAIN posts :
             /\ \A req \in PostRequests : ToLogin(PostUpdateView(Anonymous, p, req))
             /\ \A method \in Methods : ToLogin(PostDeleteView(Anonymous, p, method))
             /\ \A req \in TextRequests : ToLogin(CommentCreateView(Anonymous, p, req))
       /\ \A c \in DOMAIN comments :
             /\ \A req \in TextRequests : ToLogin(CommentUpdateView(Anonymous, c, req))
             /\ \A method \in Methods : ToLogin(CommentDeleteView(Anonymous, c, method))

\* C8: in the home feed, every category feed and every profile feed, each listed
\* post carries a comment count, the number of comments now attached to it.
C8_ListingsCountComments ==
    \A viewer \in Requesters :
        LET Counted(resp) ==
                \A row \in resp.object_list :
                    /\ "comment_count" \in DOMAIN row
                    /\ row.comment_count = Cardinality(CommentsOf(row.id))
        IN /\ Counted(PostListView(viewer).response)
           /\ \A slug \in Slugs : Counted(PostCategoryView(viewer, slug).response)
           /\ \A name \in Usernames : Counted(ProfileListView(viewer, name).response)

\* C10: a comment update or delete that its author carries through ends in a
\* redirect to the detail page of the post the comment belongs to.
C10_SuccessUrlIsThePost ==
    \A c \in DOMAIN comments :
        LET author == comments[c].author
            belongs == reverse_post_detail(comments[c].post)
        IN /\ \A text \in Texts :
                CommentUpdateView(author, c,
                    [method |-> "POST", valid |-> TRUE, form |-> text]).response.location
                  = belongs
           /\ CommentDeleteView(author, c, "POST").response.location = belongs
====
